---- MODULE Spec2Model ----
(***************************************************************************)
(* Attendance ledger of one student document: the Mongoose model methods   *)
(* markAttendance, deleteAttendanceRecord, clearAttendanceHistory, the QR  *)
(* scan controller that resolves the scan intent, the admin controllers    *)
(* and the scheduled auto-leave jobs.                                      *)
(*                                                                         *)
(* Time is a clock of ticks (UTC instants).  A day has TicksPerDay ticks;  *)
(* the server's local zone is tz ticks ahead of UTC.  Dates are instants,  *)
(* null dates are NULL.  attendancePercentage is the exact rational        *)
(* 100*present/total kept as a reduced pair <<numerator, denominator>>.    *)
(***************************************************************************)
EXTENDS Integers, Sequences, FiniteSets, TLC

\* ------------------------------------------------------------------ bounds
MaxTime == 3
MaxId == 2
MaxCount == 2
MaxWeekDays == 2
MaxWeekId == 3
MaxRaceId == 3
MaxMessages == 1
MaxPage == 1
MaxReadDays == 1
MaxNotifyDays == 1
MaxReadId == 2

\* --------------------------------------------------------- program values
NULL == -1
NoRef == "null"
LeaveTick == 1
\* a day is cut into the instants before 18:30, 18:30 itself, and the evening
TicksPerDay == LeaveTick + 2
\* offsets of the server's local zone from UTC, in ticks
TimeZones == {0, 1}
DefaultScanLocation == "Main Entrance"
UnknownDevice == "Unknown Device"
AdminDevice == "Manual entry by admin"
AdminLocation == "Admin Portal"
AutoDevice == "Auto checkout system"
AutoLocation == "Auto Checkout"
StatusEnum == {"present", "absent", "left", "entered"}
\* mutant: a fifth status passes the admin controller's check
validStatusWithLate == {"entered", "left", "present", "absent", "late"}
validStatus == {"entered", "left", "present", "absent"}

\* inputs a request can carry
AdminIds == {"admin1"}
RequestStatuses == StatusEnum \cup {"late"}
ScanDevices == {NoRef}
ScanLocations == {NoRef}
Requests == {1, 2}
\* requests name the registered student "s1" or an unknown one
ScanInputs == ({"s1"} \X ScanDevices \X ScanLocations) \cup {<<"ghost", NoRef, NoRef>>}
MarkInputs == ({"s1"} \X RequestStatuses \X AdminIds) \cup {<<"ghost", "present", "admin1">>}
\* query-string values: a date is the "YYYY-MM-DD" of a UTC day (NULL: absent),
\* limit and offset are decimal numerals (NoRef: absent)
QueryDays == {NULL} \cup (0..MaxReadDays)
Numerals == <<"0", "1", "2", "3">>
QueryLimits == {NoRef} \cup {Numerals[i] : i \in 1..(MaxPage + 1)}
QueryOffsets == {NoRef} \cup {Numerals[i] : i \in 2..(MaxPage + 1)}
SortFields == {"date", "status"}
SortOrders == {"asc", "desc"}
QueryOptions ==
  [startDate : QueryDays, endDate : QueryDays, limit : QueryLimits,
   offset : QueryOffsets, sortBy : SortFields, sortOrder : SortOrders]
\* the queries the dashboard sends: a page of the default listing, and a date
\* range in ascending order
QueryInputs ==
  {o \in QueryOptions :
     \/ o.startDate = NULL /\ o.endDate = NULL /\ o.sortBy = "date" /\ o.sortOrder = "desc"
          /\ o.limit \in {NoRef, "1"} /\ o.offset \in {NoRef, "1"}
     \/ o.startDate = 1 /\ o.endDate = 1 /\ o.sortBy = "date" /\ o.sortOrder = "asc"
          /\ o.limit = NoRef /\ o.offset = NoRef}
\* request bodies of updateStudent: a rename, or the last attendance unset
UpdateBodies == {[name |-> "renamed"], [lastAttendance |-> NULL]}
DeleteInputs == ({"s1"} \X (1..(MaxWeekId + 1))) \cup {<<"ghost", 1>>}

VARIABLES now, tz, student, nextId, response, reqs, notice, result

vars == <<now, tz, student, nextId, response, reqs, notice, result>>

\* --------------------------------------------------------------- calendar
\* Date.prototype.toDateString / getFullYear,getMonth,getDate: the local day
LocalDay(t) == (t + tz) \div TicksPerDay

\* Date.prototype.toISOString().split('T')[0]: the UTC day
UtcDay(t) == t \div TicksPerDay

\* new Date(y, m, d) / setHours(0,0,0,0): local midnight of t's local day
LocalMidnight(t) == LocalDay(t) * TicksPerDay - tz

\* setHours(18, 30, 0, 0) on the current instant
LeaveStamp(t) == LocalMidnight(t) + LeaveTick

\* ----------------------------------------------------------- array helpers
\* Array.prototype.findIndex: the first of the indexes whose element
\* satisfies the callback (hits), else 0
FindIndex(hits) ==
  IF hits = {} THEN 0 ELSE CHOOSE i \in hits : \A j \in hits : i <= j

\* Array.prototype.filter(record => statuses has record.status).length
CountStatus(s, statuses) == Cardinality({i \in 1..Len(s) : s[i].status \in statuses})

\* Array.prototype.splice(i, 1)
Splice(s, i) == [k \in 1..(Len(s) - 1) |-> IF k < i THEN s[k] ELSE s[k + 1]]

RECURSIVE Gcd(_, _)
Gcd(a, b) == IF b = 0 THEN a ELSE Gcd(b, a % b)

\* (presentRecords / totalRecords) * 100 as an exact reduced fraction
Ratio100(p, t) ==
  LET g == Gcd(100 * p, t) IN
  IF p = 0 THEN <<0, 1>> ELSE <<(100 * p) \div g, t \div g>>

\* mutant: the percentage counts status present only, as the unused virtual does
PercentageOfPresentOnly(history) ==
  IF Len(history) > 0
    THEN Ratio100(CountStatus(history, {"present"}), Len(history))
    ELSE <<0, 1>>

\* totalRecords > 0 ? (presentRecords / totalRecords) * 100 : 0
PercentageOf(history) ==
  IF Len(history) > 0
    THEN Ratio100(CountStatus(history, {"present", "entered"}), Len(history))
    ELSE <<0, 1>>

\* mutant: the history is not sorted before its first element is taken
LatestDateUnsorted(history) == history[1].date

\* [...history].sort((a, b) => b.date - a.date)[0].date
LatestDate(history) ==
  CHOOSE d \in {history[i].date : i \in 1..Len(history)} :
    \A i \in 1..Len(history) : history[i].date <= d

\* ------------------------------------------------------------ the model
\* student.model.js: studentSchema defaults of a freshly registered student
NewStudent ==
  [attendanceHistory |-> <<>>,
   attendanceCount |-> 0,
   attendancePercentage |-> <<0, 1>>,
   lastAttendance |-> NULL]

\* mutant: the entry time is stamped whatever the status
NewRecordAlwaysEntered(status, adminId, deviceInfo, scanLocation, t, id) ==
  [id |-> id,
   date |-> t,
   status |-> status,
   verifiedBy |-> adminId,
   scanLocation |-> IF scanLocation # NoRef THEN scanLocation ELSE DefaultScanLocation,
   deviceInfo |-> deviceInfo,
   entryTime |-> t,
   leaveTime |-> IF status = "left" THEN t ELSE NULL]

\* the record markAttendance builds when today has none
NewRecord(status, adminId, deviceInfo, scanLocation, t, id) ==
  [id |-> id,
   date |-> t,
   status |-> status,
   verifiedBy |-> adminId,
   scanLocation |-> IF scanLocation # NoRef THEN scanLocation ELSE DefaultScanLocation,
   deviceInfo |-> deviceInfo,
   entryTime |-> IF status = "entered" \/ status = "present" THEN t ELSE NULL,
   leaveTime |-> IF status = "left" THEN t ELSE NULL]

\* mutant: every entered/present call stamps the entry time again
UpdatedRecordRestampsEntry(r, status, adminId, deviceInfo, scanLocation, t) ==
  LET timed ==
        IF status = "left"
          THEN [r EXCEPT !.leaveTime = t, !.status = status]
        ELSE IF status = "entered" \/ status = "present"
          THEN [r EXCEPT
                  !.entryTime = t,
                  !.status = IF r.status # "left" THEN status ELSE r.status]
        ELSE r
  IN [timed EXCEPT
        !.verifiedBy = IF adminId # NoRef THEN adminId ELSE r.verifiedBy,
        !.scanLocation = IF scanLocation # NoRef THEN scanLocation ELSE r.scanLocation,
        !.deviceInfo = IF deviceInfo # NoRef THEN deviceInfo ELSE r.deviceInfo]

\* mutant: absent overwrites the status of the day's record
UpdatedRecordAbsentOverwrites(r, status, adminId, deviceInfo, scanLocation, t) ==
  LET timed ==
        IF status = "left"
          THEN [r EXCEPT !.leaveTime = t, !.status = status]
        ELSE IF status = "entered" \/ status = "present"
          THEN [r EXCEPT
                  !.entryTime = IF r.entryTime = NULL THEN t ELSE r.entryTime,
                  !.status = IF r.status # "left" THEN status ELSE r.status]
        ELSE [r EXCEPT !.status = status]
  IN [timed EXCEPT
        !.verifiedBy = IF adminId # NoRef THEN adminId ELSE r.verifiedBy,
        !.scanLocation = IF scanLocation # NoRef THEN scanLocation ELSE r.scanLocation,
        !.deviceInfo = IF deviceInfo # NoRef THEN deviceInfo ELSE r.deviceInfo]

\* mutant: left does not close a record that reads absent
UpdatedRecordLeftKeepsAbsent(r, status, adminId, deviceInfo, scanLocation, t) ==
  LET timed ==
        IF status = "left"
          THEN IF r.status = "absent" THEN r
               ELSE [r EXCEPT !.leaveTime = t, !.status = status]
        ELSE IF status = "entered" \/ status = "present"
          THEN [r EXCEPT
                  !.entryTime = IF r.entryTime = NULL THEN t ELSE r.entryTime,
                  !.status = IF r.status # "left" THEN status ELSE r.status]
        ELSE r
  IN [timed EXCEPT
        !.verifiedBy = IF adminId # NoRef THEN adminId ELSE r.verifiedBy,
        !.scanLocation = IF scanLocation # NoRef THEN scanLocation ELSE r.scanLocation,
        !.deviceInfo = IF deviceInfo # NoRef THEN deviceInfo ELSE r.deviceInfo]

\* mutant: entered/present overwrite the status even when it reads left
UpdatedRecordOverwrite(r, status, adminId, deviceInfo, scanLocation, t) ==
  LET timed ==
        IF status = "left"
          THEN [r EXCEPT !.leaveTime = t, !.status = status]
        ELSE IF status = "entered" \/ status = "present"
          THEN [r EXCEPT
                  !.entryTime = IF r.entryTime = NULL THEN t ELSE r.entryTime,
                  !.status = status]
        ELSE r
  IN [timed EXCEPT
        !.verifiedBy = IF adminId # NoRef THEN adminId ELSE r.verifiedBy,
        !.scanLocation = IF scanLocation # NoRef THEN scanLocation ELSE r.scanLocation,
        !.deviceInfo = IF deviceInfo # NoRef THEN deviceInfo ELSE r.deviceInfo]

\* the update markAttendance applies to today's existing record
UpdatedRecord(r, status, adminId, deviceInfo, scanLocation, t) ==
  LET timed ==
        IF status = "left"
          THEN [r EXCEPT !.leaveTime = t, !.status = status]
        ELSE IF status = "entered" \/ status = "present"
          THEN [r EXCEPT
                  !.entryTime = IF r.entryTime = NULL THEN t ELSE r.entryTime,
                  !.status = IF r.status # "left" THEN status ELSE r.status]
        ELSE r
  IN [timed EXCEPT
        !.verifiedBy = IF adminId # NoRef THEN adminId ELSE r.verifiedBy,
        !.scanLocation = IF scanLocation # NoRef THEN scanLocation ELSE r.scanLocation,
        !.deviceInfo = IF deviceInfo # NoRef THEN deviceInfo ELSE r.deviceInfo]

\* mutant: today's record is looked up by its exact instant, not its day
TodayIndexExact(history, t) ==
  FindIndex({i \in 1..Len(history) : LET r == history[i] IN r.date = t})

\* index of today's record as the model method finds it (local calendar day)
TodayIndex(history, t) ==
  LET today == LocalMidnight(t) IN
  FindIndex({i \in 1..Len(history) : LET r == history[i] IN LocalDay(r.date) = LocalDay(today)})

\* mutant: every present call is counted, whether or not the student has left
markAttendanceCountsEveryPresent(doc, status, adminId, deviceInfo, scanLocation, t, id) ==
  LET todayAttendanceIndex == TodayIndex(doc.attendanceHistory, t)
      history ==
        IF todayAttendanceIndex = 0
          THEN Append(doc.attendanceHistory,
                      NewRecord(status, adminId, deviceInfo, scanLocation, t, id))
          ELSE [doc.attendanceHistory EXCEPT
                  ![todayAttendanceIndex] =
                    UpdatedRecord(@, status, adminId, deviceInfo, scanLocation, t)]
  IN [doc EXCEPT
        !.attendanceHistory = history,
        !.attendanceCount = IF status = "present" THEN @ + 1 ELSE @,
        !.lastAttendance = t,
        !.attendancePercentage = PercentageOf(history)]

\* studentSchema.methods.markAttendance, up to (not including) this.save()
markAttendance(doc, status, adminId, deviceInfo, scanLocation, t, id) ==
  LET todayAttendanceIndex == TodayIndex(doc.attendanceHistory, t)
      history ==
        IF todayAttendanceIndex = 0
          THEN Append(doc.attendanceHistory,
                      NewRecord(status, adminId, deviceInfo, scanLocation, t, id))
          ELSE [doc.attendanceHistory EXCEPT
                  ![todayAttendanceIndex] =
                    UpdatedRecord(@, status, adminId, deviceInfo, scanLocation, t)]
      counted ==
        IF todayAttendanceIndex = 0
          THEN status = "present"
          ELSE status = "present"
               /\ doc.attendanceHistory[todayAttendanceIndex].leaveTime = NULL
  IN [doc EXCEPT
        !.attendanceHistory = history,
        !.attendanceCount = IF counted THEN @ + 1 ELSE @,
        !.lastAttendance = t,
        !.attendancePercentage = PercentageOf(history)]

\* mutant: the history and the counters are reset, lastAttendance is forgotten
clearAttendanceHistoryKeepsLast(doc) ==
  [doc EXCEPT
     !.attendanceHistory = <<>>,
     !.attendanceCount = 0,
     !.attendancePercentage = <<0, 1>>]

\* an argument left out of a call
Undefined == "undefined"

\* markAttendance called with arguments left out: the default parameters
\* adminId = null, deviceInfo = null, scanLocation = 'Main Entrance' fill them in
markAttendanceCall(doc, status, adminId, deviceInfo, scanLocation, t, id) ==
  markAttendance(doc, status,
                 IF adminId = Undefined THEN NoRef ELSE adminId,
                 IF deviceInfo = Undefined THEN NoRef ELSE deviceInfo,
                 IF scanLocation = Undefined THEN DefaultScanLocation ELSE scanLocation,
                 t, id)

\* studentSchema.methods.clearAttendanceHistory
clearAttendanceHistory(doc) ==
  [doc EXCEPT
     !.attendanceHistory = <<>>,
     !.attendanceCount = 0,
     !.attendancePercentage = <<0, 1>>,
     !.lastAttendance = NULL]

\* mutant: the -1 of findIndex is not checked, so splice(-1, 1) drops the last record
RecordIndexOrLast(history, recordId) ==
  IF \E i \in 1..Len(history) : history[i].id = recordId
    THEN CHOOSE i \in 1..Len(history) : history[i].id = recordId
    ELSE Len(history)

\* index deleteAttendanceRecord finds for recordId (0: not found, it throws)
RecordIndex(history, recordId) ==
  FindIndex({i \in 1..Len(history) : LET r == history[i] IN r.id = recordId})

\* mutant: only a deleted present record lowers attendanceCount
deleteAttendanceRecordPresentOnly(doc, recordId) ==
  LET recordIndex == RecordIndex(doc.attendanceHistory, recordId)
      deletedRecord == doc.attendanceHistory[recordIndex]
      history == Splice(doc.attendanceHistory, recordIndex)
      Max0(n) == IF n > 0 THEN n ELSE 0
  IN [doc EXCEPT
        !.attendanceHistory = history,
        !.attendanceCount = IF deletedRecord.status = "present" THEN Max0(@ - 1) ELSE @,
        !.attendancePercentage =
          IF Len(history) > 0
            THEN Ratio100(CountStatus(history, {"present", "entered"}), Len(history))
            ELSE <<0, 1>>,
        !.lastAttendance = IF Len(history) > 0 THEN LatestDate(history) ELSE NULL]

\* studentSchema.methods.deleteAttendanceRecord when the record exists
deleteAttendanceRecord(doc, recordId) ==
  LET recordIndex == RecordIndex(doc.attendanceHistory, recordId)
      deletedRecord == doc.attendanceHistory[recordIndex]
      history == Splice(doc.attendanceHistory, recordIndex)
      Max0(n) == IF n > 0 THEN n ELSE 0
  IN [doc EXCEPT
        !.attendanceHistory = history,
        !.attendanceCount =
          IF deletedRecord.status = "present" \/ deletedRecord.status = "entered"
            THEN Max0(@ - 1) ELSE @,
        !.attendancePercentage =
          IF Len(history) > 0
            THEN Ratio100(CountStatus(history, {"present", "entered"}), Len(history))
            ELSE <<0, 1>>,
        !.lastAttendance = IF Len(history) > 0 THEN LatestDate(history) ELSE NULL]

\* new Date("YYYY-MM-DD"): midnight UTC of the day
ParseDate(day) == day * TicksPerDay

\* setHours(23, 59, 59, 999): the last instant of t's local day
EndOfLocalDay(t) == LocalMidnight(t) + TicksPerDay - 1

\* parseInt(numeral, 10)
ParseInt(numeral) == (CHOOSE i \in 1..Len(Numerals) : Numerals[i] = numeral) - 1

\* Array.prototype.slice(start, end) for start, end >= 0
Slice(s, start, end) ==
  SubSeq(s, start + 1, IF end < Len(s) THEN end ELSE Len(s))

\* string order of the status values, as < compares them
StatusRank(status) ==
  CASE status = "absent" -> 1
    [] status = "entered" -> 2
    [] status = "left" -> 3
    [] status = "present" -> 4

\* Array.prototype.sort with the query's comparator: order * (a - b) on the
\* sort field, records that compare equal keep their order (the sort is stable)
SortRecords(s, sortBy, sortOrder) ==
  LET order == IF sortOrder = "asc" THEN 1 ELSE -1
      Key(r) == order * (IF sortBy = "date" THEN r.date ELSE StatusRank(r.status))
      Place(i) == 1 + Cardinality({j \in 1..Len(s) :
                     \/ Key(s[j]) < Key(s[i])
                     \/ Key(s[j]) = Key(s[i]) /\ j < i})
  IN [k \in 1..Len(s) |-> s[CHOOSE i \in 1..Len(s) : Place(i) = k]]

\* mutant: the page is cut out of the history before the date filter is applied
getFilteredAttendanceHistorySliceFirst(doc, options) ==
  LET paged ==
        IF options.limit # NoRef
          THEN LET start == IF options.offset = NoRef THEN 0 ELSE ParseInt(options.offset)
                   size == ParseInt(options.limit)
               IN Slice(SortRecords(doc.attendanceHistory, options.sortBy,
                                    options.sortOrder), start, start + size)
          ELSE SortRecords(doc.attendanceHistory, options.sortBy, options.sortOrder)
      FromStart(record) == record.date >= ParseDate(options.startDate)
      afterStart == IF options.startDate # NULL THEN SelectSeq(paged, FromStart) ELSE paged
      end == EndOfLocalDay(ParseDate(options.endDate))
      UntilEnd(record) == record.date <= end
      filteredHistory ==
        IF options.endDate # NULL THEN SelectSeq(afterStart, UntilEnd) ELSE afterStart
  IN [records |-> filteredHistory,
      totalRecords |-> Len(filteredHistory),
      stats |-> [totalCount |-> Len(doc.attendanceHistory),
                 filteredCount |-> Len(filteredHistory),
                 presentCount |-> CountStatus(doc.attendanceHistory, {"present", "entered"}),
                 absentCount |-> CountStatus(doc.attendanceHistory, {"absent"}),
                 attendancePercentage |-> doc.attendancePercentage]]

\* mutant: the statistics are counted over the filtered records
getFilteredAttendanceHistoryFilteredStats(doc, options) ==
  LET FromStart(record) == record.date >= ParseDate(options.startDate)
      afterStart ==
        IF options.startDate # NULL
          THEN SelectSeq(doc.attendanceHistory, FromStart)
          ELSE doc.attendanceHistory
      end == EndOfLocalDay(ParseDate(options.endDate))
      UntilEnd(record) == record.date <= end
      filteredHistory ==
        SortRecords(IF options.endDate # NULL THEN SelectSeq(afterStart, UntilEnd)
                    ELSE afterStart, options.sortBy, options.sortOrder)
  IN [records |-> filteredHistory,
      totalRecords |-> Len(filteredHistory),
      stats |-> [totalCount |-> Len(filteredHistory),
                 filteredCount |-> Len(filteredHistory),
                 presentCount |-> CountStatus(filteredHistory, {"present", "entered"}),
                 absentCount |-> CountStatus(filteredHistory, {"absent"}),
                 attendancePercentage |-> doc.attendancePercentage]]

\* mutant: filteredCount reports the size of the page
getFilteredAttendanceHistoryPageCount(doc, options) ==
  LET FromStart(record) == record.date >= ParseDate(options.startDate)
      afterStart ==
        IF options.startDate # NULL
          THEN SelectSeq(doc.attendanceHistory, FromStart)
          ELSE doc.attendanceHistory
      end == EndOfLocalDay(ParseDate(options.endDate))
      UntilEnd(record) == record.date <= end
      filteredHistory ==
        SortRecords(IF options.endDate # NULL THEN SelectSeq(afterStart, UntilEnd)
                    ELSE afterStart, options.sortBy, options.sortOrder)
      paginatedHistory ==
        IF options.limit # NoRef
          THEN LET start == IF options.offset = NoRef THEN 0 ELSE ParseInt(options.offset)
                   size == ParseInt(options.limit)
               IN Slice(filteredHistory, start, start + size)
          ELSE filteredHistory
  IN [records |-> paginatedHistory,
      totalRecords |-> Len(filteredHistory),
      stats |-> [totalCount |-> Len(doc.attendanceHistory),
                 filteredCount |-> Len(paginatedHistory),
                 presentCount |-> CountStatus(doc.attendanceHistory, {"present", "entered"}),
                 absentCount |-> CountStatus(doc.attendanceHistory, {"absent"}),
                 attendancePercentage |-> doc.attendancePercentage]]

\* studentSchema.methods.getFilteredAttendanceHistory
getFilteredAttendanceHistory(doc, options) ==
  LET FromStart(record) == record.date >= ParseDate(options.startDate)
      afterStart ==
        IF options.startDate # NULL
          THEN SelectSeq(doc.attendanceHistory, FromStart)
          ELSE doc.attendanceHistory
      end == EndOfLocalDay(ParseDate(options.endDate))
      UntilEnd(record) == record.date <= end
      filteredHistory ==
        SortRecords(IF options.endDate # NULL THEN SelectSeq(afterStart, UntilEnd)
                    ELSE afterStart, options.sortBy, options.sortOrder)
      totalCount == Len(filteredHistory)
      paginatedHistory ==
        IF options.limit # NoRef
          THEN LET start == IF options.offset = NoRef THEN 0 ELSE ParseInt(options.offset)
                   size == ParseInt(options.limit)
               IN Slice(filteredHistory, start, start + size)
          ELSE filteredHistory
  IN [records |-> paginatedHistory,
      totalRecords |-> totalCount,
      stats |-> [totalCount |-> Len(doc.attendanceHistory),
                 filteredCount |-> totalCount,
                 presentCount |-> CountStatus(doc.attendanceHistory, {"present", "entered"}),
                 absentCount |-> CountStatus(doc.attendanceHistory, {"absent"}),
                 attendancePercentage |-> doc.attendancePercentage]]

\* QR controller: index of today's record by UTC calendar date
ScanTodayIndex(history, t) ==
  LET todayDate == UtcDay(t) IN
  FindIndex({i \in 1..Len(history) : LET entry == history[i] IN UtcDay(entry.date) = todayDate})

\* mutant: the entry time is tested before the leave time
statusToSaveEntryFirst(history, t) ==
  LET todayAttendanceIndex == ScanTodayIndex(history, t) IN
  IF todayAttendanceIndex = 0 THEN "entered"
  ELSE LET todayRecord == history[todayAttendanceIndex] IN
       IF todayRecord.entryTime # NULL THEN "left"
       ELSE "entered"

\* QR controller: the status an unlabeled scan is saved with
statusToSave(history, t) ==
  LET todayAttendanceIndex == ScanTodayIndex(history, t) IN
  IF todayAttendanceIndex = 0 THEN "entered"
  ELSE LET todayRecord == history[todayAttendanceIndex] IN
       IF todayRecord.leaveTime # NULL THEN "entered"
       ELSE IF todayRecord.entryTime # NULL THEN "left"
       ELSE "entered"

\* autoMarkLeaveAttendance: today's record still open (entered/present, no leave)
AutoLeaveIndex(history, t) ==
  LET today == LocalMidnight(t) IN
  FindIndex({i \in 1..Len(history) : LET r == history[i] IN
    /\ LocalDay(r.date) = LocalDay(today)
    /\ r.status \in {"entered", "present"}
    /\ r.leaveTime = NULL})

\* mutant: the job stamps the leave time and forgets the status
autoMarkLeaveKeepsStatus(doc, t) ==
  LET todayAttendanceIndex == AutoLeaveIndex(doc.attendanceHistory, t)
      leaveTime == LeaveStamp(t)
      history ==
        [doc.attendanceHistory EXCEPT
           ![todayAttendanceIndex] = [@ EXCEPT !.leaveTime = leaveTime]]
  IN [doc EXCEPT
        !.attendanceHistory = history,
        !.lastAttendance = leaveTime,
        !.attendancePercentage = PercentageOf(history)]

\* mutant: the job keeps the percentage it found
autoMarkLeaveStalePercentage(doc, t) ==
  LET todayAttendanceIndex == AutoLeaveIndex(doc.attendanceHistory, t)
      leaveTime == LeaveStamp(t)
      history ==
        [doc.attendanceHistory EXCEPT
           ![todayAttendanceIndex] = [@ EXCEPT !.leaveTime = leaveTime, !.status = "left"]]
  IN [doc EXCEPT
        !.attendanceHistory = history,
        !.lastAttendance = leaveTime]

\* autoMarkLeaveAttendance: the per-student update before student.save()
autoMarkLeave(doc, t) ==
  LET todayAttendanceIndex == AutoLeaveIndex(doc.attendanceHistory, t)
      leaveTime == LeaveStamp(t)
      history ==
        [doc.attendanceHistory EXCEPT
           ![todayAttendanceIndex] = [@ EXCEPT !.leaveTime = leaveTime, !.status = "left"]]
  IN [doc EXCEPT
        !.attendanceHistory = history,
        !.lastAttendance = leaveTime,
        !.attendancePercentage = PercentageOf(history)]

\* runAutoCheckout: today's record with status entered and no leave time
AutoCheckoutIndex(history, t) ==
  LET today == LocalMidnight(t) IN
  FindIndex({i \in 1..Len(history) : LET record == history[i] IN
    /\ LocalMidnight(record.date) = today
    /\ record.status = "entered"
    /\ record.leaveTime = NULL})

\* mutant: save() writes the whole in-memory document over the stored one
saveWholeDocument(db, base, doc) == doc

\* document.save(): Mongoose sends the changes made since the load, a $push of
\* the records added and a $set of every path whose value differs from the
\* loaded one, and the store applies them to the document as it is now
save(db, base, doc) ==
  LET loaded == Len(base.attendanceHistory)
      Modified(old, new, cur) ==
        [f \in DOMAIN cur |-> IF new[f] # old[f] THEN new[f] ELSE cur[f]]
      history ==
        [i \in 1..Len(db.attendanceHistory) |->
           IF i <= loaded
             THEN Modified(base.attendanceHistory[i], doc.attendanceHistory[i],
                           db.attendanceHistory[i])
             ELSE db.attendanceHistory[i]]
        \o SubSeq(doc.attendanceHistory, loaded + 1, Len(doc.attendanceHistory))
      scalars ==
        Modified([base EXCEPT !.attendanceHistory = <<>>],
                 [doc EXCEPT !.attendanceHistory = <<>>],
                 [db EXCEPT !.attendanceHistory = <<>>])
  IN [scalars EXCEPT !.attendanceHistory = history]

\* HTTP status codes the controllers answer with
Ok == 200
BadRequest == 400
NotFound == 404
ServerError == 500

\* no notification was attempted and student.messages holds nothing yet
NoNotice == [last |-> "none", messages |-> 0]

\* a QR scan request that holds no document
Idle == [pc |-> "idle", created |-> FALSE, stale |-> FALSE,
         base |-> NewStudent, doc |-> NewStudent]

Init ==
  /\ now = 0
  /\ tz \in TimeZones
  /\ student = NewStudent
  /\ nextId = 1
  /\ response = Ok
  /\ reqs = [r \in Requests |-> Idle]
  /\ notice = NoNotice
  /\ result = <<>>

\* time passes
Tick ==
  /\ now < MaxTime
  /\ now' = now + 1
  /\ UNCHANGED <<tz, student, nextId, response, reqs, notice, result>>

\* a markAttendance call pushes a record iff today has none
Pushes(doc, t) == TodayIndex(doc.attendanceHistory, t) = 0

\* what the WhatsApp collaborator does with a notification: "none" when the
\* student has no parent_telephone (or the admin request switched it off)
Deliveries == {"none", "sent", "failed", "threw"}

\* mutant: a notification that fails takes the scan back and fails the request
QrScanNotifyRollback(ref, deviceInfo, scanLocation, delivery) ==
  IF ref # "s1"
    THEN /\ response' = NotFound
         /\ notice' = [notice EXCEPT !.last = "none"]
         /\ UNCHANGED <<now, tz, student, nextId, reqs, result>>
    ELSE LET status == statusToSave(student.attendanceHistory, now)
             userAgent == IF deviceInfo # NoRef THEN deviceInfo ELSE UnknownDevice
             location == IF scanLocation # NoRef THEN scanLocation ELSE DefaultScanLocation
             committed == markAttendance(student, status, NoRef, userAgent,
                                         location, now, nextId)
             lost == delivery \in {"failed", "threw"}
         IN /\ Pushes(student, now) => nextId <= MaxId
            /\ delivery = "sent" => notice.messages < MaxMessages
            /\ student' = IF lost THEN student ELSE committed
            /\ notice' = [last |-> delivery,
                          messages |-> IF delivery = "sent" THEN notice.messages + 1
                                       ELSE notice.messages]
            /\ nextId' = IF Pushes(student, now) /\ ~lost THEN nextId + 1 ELSE nextId
            /\ response' = IF lost THEN ServerError ELSE Ok
            /\ UNCHANGED <<now, tz, reqs, result>>

\* POST /mark-attendance (QR controller), run without interleaving: the scan is
\* committed by markAttendance, then the parent is notified; a delivered
\* message is pushed on student.messages and the document saved once more
QrScanNotify(ref, deviceInfo, scanLocation, delivery) ==
  IF ref # "s1"
    THEN /\ response' = NotFound
         /\ notice' = [notice EXCEPT !.last = "none"]
         /\ UNCHANGED <<now, tz, student, nextId, reqs, result>>
    ELSE LET status == statusToSave(student.attendanceHistory, now)
             userAgent == IF deviceInfo # NoRef THEN deviceInfo ELSE UnknownDevice
             location == IF scanLocation # NoRef THEN scanLocation ELSE DefaultScanLocation
             committed == markAttendance(student, status, NoRef, userAgent,
                                         location, now, nextId)
         IN /\ Pushes(student, now) => nextId <= MaxId
            /\ delivery = "sent" => notice.messages < MaxMessages
            /\ student' = IF delivery = "sent"
                             THEN save(committed, committed, committed)
                             ELSE committed
            /\ notice' = [last |-> delivery,
                          messages |-> IF delivery = "sent" THEN notice.messages + 1
                                       ELSE notice.messages]
            /\ nextId' = IF Pushes(student, now) THEN nextId + 1 ELSE nextId
            /\ response' = Ok
            /\ UNCHANGED <<now, tz, reqs, result>>

\* a scan of a student without a parent telephone
QrScan(ref, deviceInfo, scanLocation) == QrScanNotify(ref, deviceInfo, scanLocation, "none")

\* markStudentAttendance (admin controller); maxId caps the records ever
\* created.  The notification is attempted after markAttendance has saved and
\* whatever it does is only logged
AdminMarkNotify(ref, status, adminId, delivery, maxId) ==
  IF ref # "s1"
    THEN /\ response' = NotFound
         /\ notice' = [notice EXCEPT !.last = "none"]
         /\ UNCHANGED <<now, tz, student, nextId, reqs, result>>
  ELSE IF status \notin validStatus
    THEN /\ response' = BadRequest
         /\ notice' = [notice EXCEPT !.last = "none"]
         /\ UNCHANGED <<now, tz, student, nextId, reqs, result>>
  ELSE /\ Pushes(student, now) => nextId <= maxId
       /\ status = "present" => student.attendanceCount < MaxCount
       /\ student' = markAttendance(student, status, adminId, AdminDevice,
                                    AdminLocation, now, nextId)
       /\ notice' = [notice EXCEPT !.last = delivery]
       /\ nextId' = IF Pushes(student, now) THEN nextId + 1 ELSE nextId
       /\ response' = Ok
       /\ UNCHANGED <<now, tz, reqs, result>>

\* an admin mark whose notification is not attempted
AdminMarkWithin(ref, status, adminId, maxId) ==
  AdminMarkNotify(ref, status, adminId, "none", maxId)

AdminMark(ref, status, adminId) == AdminMarkWithin(ref, status, adminId, MaxId)

\* deleteAttendanceRecord (admin controller)
DeleteRecord(ref, recordId) ==
  IF ref # "s1"
    THEN /\ response' = NotFound
         /\ UNCHANGED <<now, tz, student, nextId, reqs, notice, result>>
  ELSE IF RecordIndex(student.attendanceHistory, recordId) = 0
    THEN /\ response' = NotFound
         /\ UNCHANGED <<now, tz, student, nextId, reqs, notice, result>>
  ELSE /\ student' = deleteAttendanceRecord(student, recordId)
       /\ response' = Ok
       /\ UNCHANGED <<now, tz, nextId, reqs, notice, result>>

\* clearStudentAttendanceHistory (admin controller)
ClearHistory(ref) ==
  IF ref # "s1"
    THEN /\ response' = NotFound
         /\ UNCHANGED <<now, tz, student, nextId, reqs, notice, result>>
    ELSE /\ student' = clearAttendanceHistory(student)
         /\ response' = Ok
         /\ UNCHANGED <<now, tz, nextId, reqs, notice, result>>

\* autoMarkLeaveAttendance (scheduled job)
AutoMarkLeave ==
  /\ IF AutoLeaveIndex(student.attendanceHistory, now) = 0
       THEN UNCHANGED student
       ELSE student' = autoMarkLeave(student, now)
  /\ UNCHANGED <<now, tz, nextId, response, reqs, notice, result>>

\* runAutoCheckout (admin controller)
RunAutoCheckout(adminId) ==
  /\ IF AutoCheckoutIndex(student.attendanceHistory, now) = 0
       THEN UNCHANGED student
       ELSE student' = markAttendance(student, "left", adminId, AutoDevice,
                                      AutoLocation, now, nextId)
  /\ response' = Ok
  /\ UNCHANGED <<now, tz, nextId, reqs, notice, result>>

\* the ledger under well-formed requests, each handled on its own
Next ==
  \/ Tick
  \/ \E d \in ScanDevices, l \in ScanLocations : QrScan("s1", d, l)
  \/ \E s \in validStatus, a \in AdminIds : AdminMark("s1", s, a)
  \/ \E k \in 1..Len(student.attendanceHistory) :
       DeleteRecord("s1", student.attendanceHistory[k].id)
  \/ ClearHistory("s1")
  \/ AutoMarkLeave
  \/ \E a \in AdminIds : RunAutoCheckout(a)

Spec == Init /\ [][Next]_vars

\* ------- a week of admin requests, unknown students and records included
\* the next day begins
NextDayWithin(maxDays) ==
  /\ now + TicksPerDay <= maxDays * TicksPerDay
  /\ now' = now + TicksPerDay
  /\ UNCHANGED <<tz, student, nextId, response, reqs, notice, result>>

NextDay == NextDayWithin(MaxWeekDays)

NextWeek ==
  \/ NextDay
  \/ \E i \in MarkInputs : AdminMarkWithin(i[1], i[2], i[3], MaxWeekId)
  \/ \E i \in DeleteInputs : DeleteRecord(i[1], i[2])

SpecWeek == Init /\ [][NextWeek]_vars

\* ------------------------------------------ reads next to admin requests
\* getStudentAttendanceHistory (admin controller)
GetStudentAttendanceHistory(ref, options) ==
  IF ref # "s1"
    THEN /\ response' = NotFound
         /\ UNCHANGED <<now, tz, student, nextId, reqs, notice, result>>
    ELSE /\ result' = <<getFilteredAttendanceHistory(student, options)>>
         /\ response' = Ok
         /\ UNCHANGED <<now, tz, student, nextId, reqs, notice>>

\* getAllStudents (admin controller): a student with records and no
\* lastAttendance gets the date of the latest record, in the store and in the
\* object that is returned
GetAllStudents ==
  LET studentObj == student
      unset == Len(studentObj.attendanceHistory) > 0 /\ studentObj.lastAttendance = NULL
      processed ==
        IF unset
          THEN [studentObj EXCEPT !.lastAttendance = LatestDate(studentObj.attendanceHistory)]
          ELSE studentObj
  IN /\ student' = IF unset
                      THEN [student EXCEPT
                              !.lastAttendance = LatestDate(studentObj.attendanceHistory)]
                      ELSE student
     /\ result' = <<processed>>
     /\ response' = Ok
     /\ UNCHANGED <<now, tz, nextId, reqs, notice>>

\* updateStudent (admin controller): findByIdAndUpdate with the request body
UpdateStudent(ref, updateData) ==
  IF ref # "s1"
    THEN /\ response' = NotFound
         /\ UNCHANGED <<now, tz, student, nextId, reqs, notice, result>>
    ELSE /\ student' = [f \in DOMAIN student |->
                          IF f \in DOMAIN updateData THEN updateData[f] ELSE student[f]]
         /\ response' = Ok
         /\ UNCHANGED <<now, tz, nextId, reqs, notice, result>>

NextRead ==
  \/ NextDayWithin(MaxReadDays)
  \/ \E s \in validStatus, a \in AdminIds : AdminMarkWithin("s1", s, a, MaxReadId)
  \/ \E u \in UpdateBodies : UpdateStudent("s1", u)
  \/ GetAllStudents
  \/ \E o \in QueryInputs : GetStudentAttendanceHistory("s1", o)

SpecRead == Init /\ [][NextRead]_vars

\* ------------------ scans and admin marks with the parent being notified
NextNotify ==
  \/ NextDayWithin(MaxNotifyDays)
  \/ \E i \in ScanInputs, delivery \in Deliveries :
       QrScanNotify(i[1], i[2], i[3], delivery)
  \/ \E i \in MarkInputs, delivery \in Deliveries :
       AdminMarkNotify(i[1], i[2], i[3], delivery, MaxId)

SpecNotify == Init /\ [][NextNotify]_vars

\* ------------------------------------------- QR scans and nothing else
NextScan ==
  \/ Tick
  \/ \E i \in ScanInputs, delivery \in Deliveries :
       QrScanNotify(i[1], i[2], i[3], delivery)

SpecScan == Init /\ [][NextScan]_vars

\* ------------------------------------- two QR scan requests in flight
\* QR controller up to the await of save(): the student is loaded, the intent
\* resolved and markAttendance has changed the in-memory document
Load(r, ref, deviceInfo, scanLocation) ==
  /\ reqs[r].pc = "idle"
  /\ IF ref # "s1"
       THEN /\ response' = NotFound
            /\ UNCHANGED <<now, tz, student, nextId, reqs, notice, result>>
       ELSE LET status == statusToSave(student.attendanceHistory, now)
                userAgent == IF deviceInfo # NoRef THEN deviceInfo ELSE UnknownDevice
                location == IF scanLocation # NoRef THEN scanLocation
                            ELSE DefaultScanLocation
                created == Pushes(student, now)
            IN /\ created => nextId <= MaxRaceId
               /\ reqs' = [reqs EXCEPT ![r] =
                    [pc |-> "saving", created |-> created, stale |-> FALSE,
                     base |-> student,
                     doc |-> markAttendance(student, status, NoRef, userAgent,
                                            location, now, nextId)]]
               /\ nextId' = IF created THEN nextId + 1 ELSE nextId
               /\ UNCHANGED <<now, tz, student, response, notice, result>>

\* the save lands: a $push bumps the document version, and a positional $set
\* of a record is refused (VersionError) when the version moved since the load
Save(r) ==
  /\ reqs[r].pc = "saving"
  /\ IF ~reqs[r].created /\ reqs[r].stale
       THEN /\ response' = ServerError
            /\ UNCHANGED student
       ELSE /\ response' = Ok
            /\ student' = save(student, reqs[r].base, reqs[r].doc)
  /\ reqs' = [q \in Requests |->
       IF q = r THEN [reqs[q] EXCEPT !.pc = "done"]
       ELSE IF reqs[q].pc = "saving" /\ reqs[r].created
         THEN [reqs[q] EXCEPT !.stale = TRUE]
       ELSE reqs[q]]
  /\ UNCHANGED <<now, tz, nextId, notice, result>>

\* the response is sent and the request's document dropped
Respond(r) ==
  /\ reqs[r].pc = "done"
  /\ reqs' = [reqs EXCEPT ![r] = Idle]
  /\ UNCHANGED <<now, tz, student, nextId, response, notice, result>>

NextRace ==
  \/ Tick
  \/ \E r \in Requests, d \in ScanDevices, l \in ScanLocations : Load(r, "s1", d, l)
  \/ \E r \in Requests : Save(r)
  \/ \E r \in Requests : Respond(r)

SpecRace == Init /\ [][NextRace]_vars

\* ------------------------------------------------------------ properties
History == student.attendanceHistory

\* indices of the records whose date falls on the local calendar day of t
OnDay(history, t) == {i \in 1..Len(history) : LocalDay(history[i].date) = LocalDay(t)}

\* today's record is marked left
TodayLeft ==
  \E i \in OnDay(History, now) : History[i].status = "left"

\* a step of markAttendance called with status entered or present
EnterStep ==
  \/ \E i \in MarkInputs :
       i[1] = "s1" /\ i[2] \in {"entered", "present"} /\ AdminMark(i[1], i[2], i[3])
  \/ \E i \in ScanInputs :
       /\ i[1] = "s1"
       /\ statusToSave(History, now) = "entered"
       /\ QrScan(i[1], i[2], i[3])

\* C1 (Dedup, I1): whatever markAttendance calls ran one after another, no two
\* records of the history have dates on the same local calendar day.
C1_Dedup ==
  \A i, j \in 1..Len(History) :
    i # j => LocalDay(History[i].date) # LocalDay(History[j].date)

\* a day's record that was marked more than once: it has been entered and left
C1_Witness ==
  /\ Len(History) = 1
  /\ History[1].entryTime # NULL
  /\ History[1].leaveTime # NULL
  /\ History[1].entryTime # History[1].leaveTime

\* C2 (Sticky-left): a markAttendance call with status entered or present made
\* while today's record reads left leaves that record's status left.
C2_StickyLeft == [][(TodayLeft /\ EnterStep) => TodayLeft']_vars

\* a record created as left whose entry time was stamped by a later entered/present
C2_Witness ==
  \E i \in 1..Len(History) :
    /\ History[i].status = "left"
    /\ History[i].leaveTime = History[i].date
    /\ History[i].entryTime # NULL
    /\ History[i].entryTime > History[i].leaveTime

\* C3 (Counter consistency): attendancePercentage * totalRecords equals
\* 100 * (records present or entered), it is 0 on an empty history, it lies in
\* [0, 100], and attendanceCount is never negative.
C3_CounterConsistency ==
  LET pct == student.attendancePercentage
      total == Len(History)
      presentOrEntered == CountStatus(History, {"present", "entered"})
  IN /\ pct[2] > 0
     /\ pct[1] * total = 100 * presentOrEntered * pct[2]
     /\ total = 0 => pct[1] = 0
     /\ 0 <= pct[1] /\ pct[1] <= 100 * pct[2]
     /\ student.attendanceCount >= 0

\* two records, one of them entered and the other left: 50 percent
C3_Witness ==
  /\ Len(History) = 2
  /\ student.attendancePercentage = <<50, 1>>
  /\ \E i \in 1..2 : History[i].status = "entered"

\* C4 (I2 for attendanceCount): the cached attendanceCount equals the number of
\* records whose status is present.
C4_CountMatchesPresent ==
  student.attendanceCount = CountStatus(History, {"present"})

\* C5 (I3): lastAttendance is the date of the chronologically latest record,
\* and is null exactly when the history is empty.
C5_LastAttendanceIsLatestDate ==
  /\ (student.lastAttendance = NULL) <=> (Len(History) = 0)
  /\ Len(History) > 0 => student.lastAttendance = LatestDate(History)

\* the first record of the history dated on the UTC calendar day of t (0: none)
FirstOnUtcDay(history, t) ==
  LET found == {i \in 1..Len(history) : UtcDay(history[i].date) = UtcDay(t)} IN
  IF found = {} THEN 0 ELSE CHOOSE i \in found : \A j \in found : i <= j

\* C7 (Scan-intent resolution): an unlabeled scan arriving now resolves to
\* entered when there is no record for today, entered when today's record has a
\* leaveTime, left when it has an entryTime and no leaveTime, entered when it
\* has neither; nothing else.
C7_ScanIntent ==
  LET k == FirstOnUtcDay(History, now)
      intent == statusToSave(History, now)
  IN /\ intent \in {"entered", "left"}
     /\ k = 0 => intent = "entered"
     /\ (k # 0 /\ History[k].leaveTime # NULL) => intent = "entered"
     /\ (k # 0 /\ History[k].entryTime # NULL /\ History[k].leaveTime = NULL)
          => intent = "left"
     /\ (k # 0 /\ History[k].entryTime = NULL /\ History[k].leaveTime = NULL)
          => intent = "entered"

\* a scan has closed today's record (left), so the next scan is a re-entry
C7_Witness ==
  LET k == FirstOnUtcDay(History, now) IN
  /\ k # 0
  /\ History[k].deviceInfo = UnknownDevice
  /\ History[k].verifiedBy = NoRef
  /\ History[k].entryTime # NULL
  /\ History[k].leaveTime = now
  /\ statusToSave(History, now) = "entered"

\* a deleteRecord request of the registered student whose recordId matches nothing
DeleteMissStep ==
  \E i \in DeleteInputs :
    /\ i[1] = "s1"
    /\ \A k \in 1..Len(History) : History[k].id # i[2]
    /\ DeleteRecord(i[1], i[2])

\* C8: deleteRecord with a recordId matching no record answers not-found and
\* leaves history, attendanceCount, attendancePercentage and lastAttendance as
\* they were.
C8_DeleteUnknownRecord ==
  [][DeleteMissStep => (response' = NotFound /\ student' = student)]_vars

\* not-found answered while the history still holds a record and another
\* record had been deleted before
C8_Witness ==
  /\ response = NotFound
  /\ Len(History) = 2
  /\ nextId = 4

\* a deleteRecord request of the registered student for the record at index k
DeleteHitStep(k) ==
  \E i \in DeleteInputs :
    /\ i[1] = "s1"
    /\ History[k].id = i[2]
    /\ DeleteRecord(i[1], i[2])

Records(history) == {history[i] : i \in 1..Len(history)}

\* C9: deleteRecord on an existing record removes exactly that record, lowers
\* attendanceCount by one (not below 0) when the record was present or entered
\* and leaves it alone when it was absent or left; deleting a present record
\* from 2 present and 1 absent lowers the count by 1 and gives the percentage
\* of the 2 records that remain.
C9_DeleteAdjustsCount ==
  [][\A k \in 1..Len(History) : DeleteHitStep(k) =>
       LET deleted == History[k]
           after == student'.attendanceHistory
           count == student.attendanceCount
       IN /\ Len(after) = Len(History) - 1
          /\ Records(after) = Records(History) \ {deleted}
          /\ deleted.status \in {"present", "entered"} =>
               student'.attendanceCount = IF count > 0 THEN count - 1 ELSE 0
          /\ deleted.status \in {"absent", "left"} =>
               student'.attendanceCount = count
          /\ ( /\ Len(History) = 3
               /\ CountStatus(History, {"present"}) = 2
               /\ CountStatus(History, {"absent"}) = 1
               /\ deleted.status = "present" )
             => /\ student'.attendanceCount = count - 1
                /\ student'.attendancePercentage = <<50, 1>>]_vars

\* three records were created, one present and one absent record remain
C9_Witness ==
  /\ nextId = 4
  /\ Len(History) = 2
  /\ \E i, j \in 1..2 : History[i].status = "present" /\ History[j].status = "absent"
  /\ student.attendanceCount = 1
  /\ student.attendancePercentage = <<50, 1>>
  /\ response = Ok

\* C10 (Deletion recompute): after a successful deleteRecord lastAttendance is
\* the date of the latest remaining record; deleting the only record makes
\* lastAttendance null and attendancePercentage 0.
C10_DeletionRecompute ==
  [][\A k \in 1..Len(History) : DeleteHitStep(k) =>
       LET after == student'.attendanceHistory
           last == student'.lastAttendance
       IN /\ Len(after) > 0 =>
               /\ \E j \in 1..Len(after) : after[j].date = last
               /\ \A j \in 1..Len(after) : after[j].date <= last
          /\ Len(History) = 1 =>
               /\ last = NULL
               /\ student'.attendancePercentage = <<0, 1>>]_vars

\* the latest of three records was deleted: lastAttendance fell back to the
\* date of the latest of the two that remain, a day before today
C10_Witness ==
  /\ nextId = 4
  /\ Len(History) = 2
  /\ student.lastAttendance = History[2].date
  /\ History[1].date < History[2].date
  /\ LocalDay(student.lastAttendance) < LocalDay(now)
  /\ response = Ok

\* the instant request r called markAttendance
LoadedAt(r) == reqs[r].doc.lastAttendance

\* both requests loaded the same stored document, on the same day, and that
\* document holds no record for the day
RacedOnEmptyDay(r1, r2) ==
  /\ r1 # r2
  /\ reqs[r1].pc # "idle" /\ reqs[r2].pc # "idle"
  /\ reqs[r1].base = reqs[r2].base
  /\ LocalDay(LoadedAt(r1)) = LocalDay(LoadedAt(r2))
  /\ OnDay(reqs[r1].base.attendanceHistory, LoadedAt(r1)) = {}

\* the value the store holds for a $set field after request early and then
\* request late have saved: late's value where late changed it, else early's
AfterBoth(early, late, field) ==
  IF reqs[late].doc[field] # reqs[late].base[field]
    THEN reqs[late].doc[field]
    ELSE reqs[early].doc[field]

\* C6 (Concurrent scan race): when two scan requests load the document before
\* either saves, both find no record for today and both create one; once both
\* have saved, the history holds both records while the counters are the ones
\* the requests computed from their own one-record snapshots, the later write
\* replacing the earlier's.
C6_ScanRace ==
  \A early, late \in Requests : RacedOnEmptyDay(early, late) =>
    /\ reqs[early].created /\ reqs[late].created
    /\ (reqs[early].pc = "done" /\ reqs[late].pc = "done" /\ reqs[late].stale) =>
         /\ Cardinality(OnDay(History, LoadedAt(early))) = 2
         /\ student.attendancePercentage = AfterBoth(early, late, "attendancePercentage")
         /\ student.attendanceCount = AfterBoth(early, late, "attendanceCount")
         /\ student.lastAttendance = AfterBoth(early, late, "lastAttendance")

\* a double scan: both requests loaded at the same instant, both have saved,
\* and the stored percentage no longer matches the stored history
C6_Witness ==
  /\ \E r1, r2 \in Requests :
       /\ RacedOnEmptyDay(r1, r2)
       /\ LoadedAt(r1) = LoadedAt(r2)
       /\ reqs[r1].pc = "done" /\ reqs[r2].pc = "done"
  /\ student.attendancePercentage # PercentageOf(History)

\* C11: clearHistory always succeeds and leaves the history empty,
\* attendanceCount 0, attendancePercentage 0 and lastAttendance null; clearing
\* the cleared student again (or an already empty one) gives the same state.
C11_ClearHistory ==
  [][ClearHistory("s1") =>
       /\ response' = Ok
       /\ student'.attendanceHistory = <<>>
       /\ student'.attendanceCount = 0
       /\ student'.attendancePercentage = <<0, 1>>
       /\ student'.lastAttendance = NULL
       /\ clearAttendanceHistory(student') = student'
       /\ Len(History) = 0 => clearAttendanceHistory(student) = student']_vars

\* two records had been created and the ledger is back to the empty one
C11_Witness ==
  /\ nextId = 3
  /\ student = NewStudent
  /\ response = Ok

\* the answer of the last history query, if the last read was one
Answer == result[1]
Answered == Len(result) = 1 /\ "stats" \in DOMAIN result[1]

\* the date filters and sort options of a query, without its page
Unpaged(o) == [o EXCEPT !.limit = NoRef, !.offset = NoRef]

\* C12 (Pagination independence): for a fixed student state and a fixed
\* startDate/endDate filter, queryHistory returns the same stats object for
\* every limit and offset.
C12_PaginationIndependence ==
  \A o \in QueryOptions :
    getFilteredAttendanceHistory(student, o).stats
      = getFilteredAttendanceHistory(student, Unpaged(o)).stats

\* a page of one record was served out of two, and its stats count both
C12_Witness ==
  /\ Answered
  /\ Len(History) = 2
  /\ Len(Answer.records) = 1
  /\ Answer.stats.totalCount = 2
  /\ Answer.stats.filteredCount = 2

\* the stored records a query's date range keeps: dated at or after midnight
\* (UTC) of startDate, and on a local day no later than the one endDate's
\* midnight (UTC) falls on
InRange(history, o) ==
  {i \in 1..Len(history) :
     /\ o.startDate # NULL => history[i].date >= o.startDate * TicksPerDay
     /\ o.endDate # NULL =>
          LocalDay(history[i].date) <= LocalDay(o.endDate * TicksPerDay)}

\* list s is in the order the query asks for
InOrder(s, o) ==
  \A i, j \in 1..Len(s) : i < j =>
    LET a == IF o.sortBy = "date" THEN s[i].date ELSE StatusRank(s[i].status)
        b == IF o.sortBy = "date" THEN s[j].date ELSE StatusRank(s[j].status)
    IN IF o.sortOrder = "asc" THEN a <= b ELSE a >= b

\* C13: offset and limit are applied after filtering and sorting: the records
\* returned are the elements offset .. offset+limit-1 of the filtered, sorted
\* list, all of it when there is no limit, and the reported total is the size
\* of the filtered list whatever the page.
C13_PageOfFilteredSorted ==
  \A o \in QueryOptions :
    LET answer == getFilteredAttendanceHistory(student, o)
        list == getFilteredAttendanceHistory(student, Unpaged(o)).records
        kept == InRange(History, o)
        offset == IF o.offset = NoRef THEN 0 ELSE ParseInt(o.offset)
        limit == ParseInt(o.limit)
        room == IF Len(list) > offset THEN Len(list) - offset ELSE 0
        size == IF limit < room THEN limit ELSE room
    IN /\ Len(list) = Cardinality(kept)
       /\ Records(list) = {History[i] : i \in kept}
       /\ InOrder(list, o)
       /\ answer.totalRecords = Cardinality(kept)
       /\ o.limit = NoRef => answer.records = list
       /\ o.limit # NoRef => answer.records = [k \in 1..size |-> list[offset + k]]

\* the second page of one record: the older of two records, out of a total of 2
C13_Witness ==
  /\ Answered
  /\ Len(History) = 2
  /\ History[1].date < History[2].date
  /\ Answer.records = <<History[1]>>
  /\ Answer.totalRecords = 2

\* C14: the total, present (present or entered), absent counts and the
\* percentage of the stats are taken over the whole stored history: every
\* startDate/endDate filter reports the same ones for the same student state.
C14_StatsOverWholeHistory ==
  \A o \in QueryOptions :
    LET stats == getFilteredAttendanceHistory(student, o).stats
        whole == getFilteredAttendanceHistory(
                   student, [o EXCEPT !.startDate = NULL, !.endDate = NULL]).stats
    IN /\ stats.totalCount = whole.totalCount
       /\ stats.presentCount = whole.presentCount
       /\ stats.absentCount = whole.absentCount
       /\ stats.attendancePercentage = whole.attendancePercentage
       /\ stats.totalCount = Len(History)
       /\ stats.presentCount = CountStatus(History, {"present", "entered"})
       /\ stats.absentCount = CountStatus(History, {"absent"})
       /\ stats.attendancePercentage = student.attendancePercentage

\* a date range that keeps one of two records, an absent one being left out,
\* reports the counts of both
C14_Witness ==
  /\ Answered
  /\ Answer.totalRecords = 1
  /\ Answer.stats.filteredCount = 1
  /\ Answer.stats.totalCount = 2
  /\ Answer.stats.absentCount = 1
  /\ Answer.records[1].status # "absent"

\* a read request: the student listing or a history query
ReadStep ==
  \/ GetAllStudents
  \/ \E o \in QueryInputs : GetStudentAttendanceHistory("s1", o)

\* C15: read paths never mutate: a history query or a student listing leaves
\* the stored attendanceHistory, attendanceCount, attendancePercentage and
\* lastAttendance as they were.
C15_ReadsDoNotMutate == [][ReadStep => student' = student]_vars

\* C16: whether the notification of a scan or an admin mark is delivered,
\* fails or throws, the request answers success and the stored ledger is the
\* one markAttendance committed, once: nothing is rolled back or applied again.
C16_NotificationFailure ==
  [][LET delivery == notice'.last IN
     /\ \A i \in ScanInputs :
          (i[1] = "s1" /\ QrScanNotify(i[1], i[2], i[3], delivery)) =>
            /\ response' = Ok
            /\ student' = markAttendance(student, statusToSave(History, now), NoRef,
                                         UnknownDevice, DefaultScanLocation, now, nextId)
     /\ \A i \in MarkInputs :
          ( /\ i[1] = "s1"
            /\ i[2] \in StatusEnum
            /\ AdminMarkNotify(i[1], i[2], i[3], delivery, MaxId) ) =>
            /\ response' = Ok
            /\ student' = markAttendance(student, i[2], i[3], AdminDevice,
                                         AdminLocation, now, nextId)]_vars

\* a scan was delivered earlier, the exit scan's notification threw, and the
\* exit is in the ledger all the same
C16_Witness ==
  /\ notice = [last |-> "threw", messages |-> 1]
  /\ response = Ok
  /\ Len(History) = 1
  /\ History[1].deviceInfo = UnknownDevice
  /\ History[1].status = "left"
  /\ History[1].leaveTime = now
  /\ student.lastAttendance = now

\* C17: an admin mark naming a student that does not exist is answered
\* not-found and one with a status outside present, absent, left, entered is
\* answered invalid-status; in both cases the ledger is not modified and no
\* notification is attempted.
C17_AdminMarkRejected ==
  [][\A i \in {m \in MarkInputs : m[1] # "s1" \/ m[2] \notin StatusEnum} :
       (\E delivery \in Deliveries : AdminMarkNotify(i[1], i[2], i[3], delivery, MaxId)) =>
         /\ response' = IF i[1] # "s1" THEN NotFound ELSE BadRequest
         /\ student' = student
         /\ nextId' = nextId
         /\ notice'.last = "none"
         /\ notice'.messages = notice.messages]_vars

\* an invalid status was refused after a scan that had been notified
C17_Witness ==
  /\ response = BadRequest
  /\ notice = [last |-> "none", messages |-> 1]
  /\ Len(History) = 1

\* a request that calls markAttendance with the given status
MarkStep(status) ==
  \/ \E a \in AdminIds : AdminMark("s1", status, a)
  \/ /\ statusToSave(History, now) = status
     /\ \E d \in ScanDevices, l \in ScanLocations : QrScan("s1", d, l)
  \/ /\ status = "left"
     /\ AutoCheckoutIndex(History, now) # 0
     /\ \E a \in AdminIds : RunAutoCheckout(a)

\* C18: with no record for today markAttendance appends exactly one record of
\* the given status, entryTime set iff the status is entered or present,
\* leaveTime set iff it is left, and attendanceCount grows iff it is present;
\* entered on an empty history gives one record, entryTime set, leaveTime
\* null, attendanceCount as it was (0 for a new student), percentage 100.
C18_NewRecord ==
  [][\A s \in StatusEnum : (TodayIndex(History, now) = 0 /\ MarkStep(s)) =>
       LET after == student'.attendanceHistory
           r == after[Len(after)]
           count == student.attendanceCount
       IN /\ Len(after) = Len(History) + 1
          /\ SubSeq(after, 1, Len(History)) = History
          /\ r.status = s /\ r.date = now
          /\ r.entryTime = IF s \in {"entered", "present"} THEN now ELSE NULL
          /\ r.leaveTime = IF s = "left" THEN now ELSE NULL
          /\ student'.attendanceCount = IF s = "present" THEN count + 1 ELSE count
          /\ (Len(History) = 0 /\ s = "entered") =>
               /\ student'.attendancePercentage = <<100, 1>>
               /\ student = NewStudent => student'.attendanceCount = 0]_vars

\* the first mark of a new student was entered
C18_Witness ==
  /\ nextId = 2
  /\ Len(History) = 1
  /\ History[1].status = "entered"
  /\ History[1].entryTime = History[1].date
  /\ History[1].leaveTime = NULL
  /\ student.attendanceCount = 0
  /\ student.attendancePercentage = <<100, 1>>
  /\ student.lastAttendance = History[1].date

\* C19: markAttendance with status left on today's existing record, whatever
\* its status, adds no record and sets that record's status to left and its
\* leaveTime to now.
C19_LeftOverwrites ==
  [][LET k == TodayIndex(History, now) IN
     (k # 0 /\ MarkStep("left")) =>
       LET after == student'.attendanceHistory IN
       /\ Len(after) = Len(History)
       /\ after[k].status = "left"
       /\ after[k].leaveTime = now
       /\ after[k].id = History[k].id /\ after[k].date = History[k].date
       /\ after[k].entryTime = History[k].entryTime
       /\ \A j \in 1..Len(History) : j # k => after[j] = History[j]]_vars

\* a record that never had an entry (created absent or left) was marked left
\* at a later instant of its day
C19_Witness ==
  \E i \in 1..Len(History) :
    /\ History[i].status = "left"
    /\ History[i].entryTime = NULL
    /\ History[i].leaveTime > History[i].date
    /\ student.lastAttendance = History[i].leaveTime

\* C20: markAttendance with status present on today's existing record adds 1
\* to attendanceCount only if the record's leaveTime is unset; on a record
\* that was entered and then left it leaves attendanceCount alone, keeps the
\* entryTime and the status stays left.
C20_PresentCountsBeforeLeave ==
  [][LET k == TodayIndex(History, now) IN
     (k # 0 /\ MarkStep("present")) =>
       LET after == student'.attendanceHistory
           count == student.attendanceCount
       IN /\ student'.attendanceCount =
               IF History[k].leaveTime = NULL THEN count + 1 ELSE count
          /\ ( /\ History[k].entryTime # NULL
               /\ History[k].leaveTime # NULL
               /\ History[k].status = "left" ) =>
               /\ student'.attendanceCount = count
               /\ after[k].entryTime = History[k].entryTime
               /\ after[k].status = "left"]_vars

\* entered, left, and a later mark the same day that moved neither the status
\* nor the count
C20_Witness ==
  /\ Len(History) = 1
  /\ History[1].status = "left"
  /\ History[1].entryTime = History[1].date
  /\ History[1].leaveTime > History[1].entryTime
  /\ student.lastAttendance > History[1].leaveTime
  /\ student.attendanceCount = 0

\* C21 (first entry of the day wins): once today's record has an entryTime, no
\* markAttendance call of that day, whatever its status, changes it.
C21_FirstEntryWins ==
  [][LET k == TodayIndex(History, now) IN
     ( /\ k # 0
       /\ History[k].entryTime # NULL
       /\ \E s \in StatusEnum : MarkStep(s) ) =>
       student'.attendanceHistory[k].entryTime = History[k].entryTime]_vars

\* present was marked twice on one day, the second time at a later instant:
\* the entry time is still the first one
C21_Witness ==
  /\ Len(History) = 1
  /\ student.attendanceCount = 2
  /\ History[1].entryTime = History[1].date
  /\ student.lastAttendance > History[1].entryTime

\* C22 (non-destructive provenance merge): a markAttendance call that updates
\* today's record overwrites verifiedBy, scanLocation and deviceInfo only
\* where it supplies a value; a field it leaves out keeps its prior value.
C22_ProvenanceMerge ==
  LET k == TodayIndex(History, now) IN
  k # 0 =>
    \A s \in StatusEnum,
       adminId \in {Undefined} \cup AdminIds,
       deviceInfo \in {Undefined, AdminDevice},
       scanLocation \in {Undefined, AdminLocation} :
      LET r == markAttendanceCall(student, s, adminId, deviceInfo, scanLocation,
                                  now, nextId).attendanceHistory[k]
      IN /\ r.verifiedBy = IF adminId = Undefined THEN History[k].verifiedBy ELSE adminId
         /\ r.deviceInfo = IF deviceInfo = Undefined THEN History[k].deviceInfo
                           ELSE deviceInfo
         /\ r.scanLocation = IF scanLocation = Undefined THEN History[k].scanLocation
                             ELSE scanLocation

\* C23: a QR scan that resolves as a re-entry (today's record already has a
\* leaveTime) is recorded with entryTime set to the scan time while the
\* record's status still reads left.
C23_ReentryRestampsEntry ==
  [][LET k == ScanTodayIndex(History, now) IN
     ( /\ k # 0
       /\ History[k].leaveTime # NULL
       /\ \E d \in ScanDevices, l \in ScanLocations : QrScan("s1", d, l) ) =>
       /\ student'.attendanceHistory[k].entryTime = now
       /\ student'.attendanceHistory[k].status = "left"]_vars

\* C24: in every state reached from an empty history through markAttendance
\* and the auto-leave jobs, a record has a leaveTime iff its status is left.
C24_LeaveTimeIffLeft ==
  \A i \in 1..Len(History) :
    (History[i].leaveTime # NULL) <=> (History[i].status = "left")

\* the job closed a record that was entered in the morning at 18:30
C24_Witness ==
  \E i \in 1..Len(History) :
    /\ History[i].status = "left"
    /\ History[i].entryTime = History[i].date
    /\ History[i].leaveTime = LeaveStamp(History[i].date)
    /\ History[i].leaveTime > History[i].entryTime
    /\ History[i].verifiedBy = NoRef
    /\ student.lastAttendance = History[i].leaveTime

\* C25: in every reachable state a record with both an entryTime and a
\* leaveTime has entryTime <= leaveTime.
C25_EntryBeforeLeave ==
  \A i \in 1..Len(History) :
    (History[i].entryTime # NULL /\ History[i].leaveTime # NULL) =>
      History[i].entryTime <= History[i].leaveTime

\* C26: in every state reached from an empty history through markAttendance,
\* deleteRecord and clearHistory, attendanceCount is at most the number of
\* records of the history.
C26_CountWithinRecords ==
  student.attendanceCount <= Len(History)

\* a QR scan of the registered student
ScanStep ==
  \E i \in ScanInputs, delivery \in Deliveries :
    i[1] = "s1" /\ QrScanNotify(i[1], i[2], i[3], delivery)

\* C27: of the QR scans of one calendar day, with nothing but scans in
\* between, the first resolves to entered, the second to left and every later
\* one to entered, and no scan after the second changes the day's leaveTime.
C27_ScanSequence ==
  [][LET day == OnDay(History, now)
         resolved == statusToSave(History, now)
     IN ScanStep =>
          /\ day = {} => resolved = "entered"
          /\ \A k \in day :
               /\ History[k].leaveTime = NULL => resolved = "left"
               /\ History[k].leaveTime # NULL =>
                    /\ resolved = "entered"
                    /\ student'.attendanceHistory[k].leaveTime = History[k].leaveTime]_vars

\* C28: the scan-intent resolver (UTC calendar date) and markAttendance (local
\* calendar date) pick the same record for today at every instant, or both
\* find none.
C28_ResolverAgreesWithMutator ==
  ScanTodayIndex(History, now) = TodayIndex(History, now)

\* C29: markAttendance with status absent on a day that has a record leaves
\* the record's status, entryTime and leaveTime and the attendanceCount as
\* they were; only the provenance fields and lastAttendance can change.
C29_AbsentOnExistingRecord ==
  [][LET k == TodayIndex(History, now) IN
     (k # 0 /\ MarkStep("absent")) =>
       LET after == student'.attendanceHistory IN
       /\ Len(after) = Len(History)
       /\ after[k].status = History[k].status
       /\ after[k].entryTime = History[k].entryTime
       /\ after[k].leaveTime = History[k].leaveTime
       /\ after[k].id = History[k].id /\ after[k].date = History[k].date
       /\ \A j \in 1..Len(History) : j # k => after[j] = History[j]
       /\ student'.attendanceCount = student.attendanceCount
       /\ student'.attendancePercentage = student.attendancePercentage]_vars

\* a scanned entry that an admin touched later the same day and that is still
\* entered, uncounted and open
C29_Witness ==
  /\ Len(History) = 1
  /\ History[1].status = "entered"
  /\ History[1].deviceInfo = AdminDevice
  /\ History[1].entryTime = History[1].date
  /\ History[1].leaveTime = NULL
  /\ student.lastAttendance > History[1].date
  /\ student.attendanceCount = 0

\* the records of today's local day that an auto-leave run over the given
\* statuses has to close
OpenToday(statuses) ==
  {i \in OnDay(History, now) :
     History[i].status \in statuses /\ History[i].leaveTime = NULL}

AutoLeaveEffects(statuses) ==
  LET open == OpenToday(statuses)
      after == student'.attendanceHistory
  IN /\ Len(after) = Len(History)
     /\ \A i \in open :
          /\ after[i].status = "left"
          /\ after[i].leaveTime # NULL
          /\ after[i].id = History[i].id
          /\ after[i].date = History[i].date
          /\ after[i].entryTime = History[i].entryTime
     /\ \A i \in (1..Len(History)) \ open : after[i] = History[i]
     /\ student'.attendanceCount = student.attendanceCount
     /\ open # {} => student'.attendancePercentage = PercentageOf(after)
     /\ open = {} => student' = student

\* C30: after an auto-leave run whose saves succeed (autoMarkLeaveAttendance
\* for records entered or present, runAutoCheckout for records entered), the
\* student's record of today that had no leaveTime reads left with a
\* leaveTime, the percentage is the one of the whole new history, and the
\* attendanceCount, the records of other days and a student without such a
\* record are unchanged.
C30_AutoLeaveRun ==
  [][/\ AutoMarkLeave => AutoLeaveEffects({"entered", "present"})
     /\ (\E a \in AdminIds : RunAutoCheckout(a)) => AutoLeaveEffects({"entered"})]_vars

\* a present record that the 18:30 job closed after the student had come in
\* later than that
C30_Witness ==
  \E i \in 1..Len(History) :
    /\ History[i].status = "left"
    /\ History[i].entryTime # NULL
    /\ History[i].leaveTime # NULL
    /\ History[i].leaveTime < History[i].entryTime
    /\ student.lastAttendance = History[i].leaveTime
    /\ student.attendanceCount > 0

====
